---- MODULE Spec2Model ----
(***************************************************************************)
(* Sparkplug B edge node (send_thinkfan_sparkplug.py).                     *)
(*                                                                         *)
(* Two threads share the module globals connected, seq, first and          *)
(* previous_metrics without any lock:                                      *)
(*   - the main thread: the wait loop (239-240) and the tick loop          *)
(*     (245-261), which calls read_metrics and build_payload;              *)
(*   - the paho network thread started by loop_start (236), which runs     *)
(*     the on_connect callback (167-208), itself calling build_payload.    *)
(* Each action below is one read or write of a shared global, together     *)
(* with the thread-local statements that follow it, so that every          *)
(* interleaving of the two threads the interpreter can produce is a        *)
(* behaviour of Spec.                                                      *)
(*                                                                         *)
(* A metric dictionary {name: (name, datatype, value)} is a function from  *)
(* the metric names to their values; the datatype is fixed by the name.    *)
(* Locals that are dead (rebound before their next read) are put back to   *)
(* their initial value when the code leaves their scope.                   *)
(***************************************************************************)
EXTENDS Integers, Sequences, FiniteSets, TLC

\* ------------------------------------------------------------------ bounds
MaxTicks == 2
MaxConnects == 2
MaxValue == 1
MaxRc == 1
MaxCalls == 260
MaxMetrics == 2
MaxCmds == 2
V3MaxTicks == 1

\* --------------------------------------------------------------- constants
SeqModulus == 256
None == -1
UnmappedAlias == 255

VARIABLES
    connected,          \* global connected (68)
    seq,                \* global seq (69)
    first,              \* global first (70)
    previous_metrics,   \* global previous_metrics (71)
    mainPc,             \* main thread: position in 239-261
    rm_metrics,         \* read_metrics' local metrics (141-154)
    delta,              \* read_metrics' local delta (159-160)
    rm_keys,            \* the keys the comprehension of 159-160 has yet to visit
    metrics,            \* the main loop's metrics (246, 255)
    mainSeq,            \* build_payload's payload.seq, main thread (98)
    mainTmp,            \* the value of seq loaded by line 99, main thread
    netPc,              \* network thread: position in on_connect
    netRc,              \* on_connect's rc
    netSeq,             \* build_payload's payload.seq, network thread (98)
    netTmp,             \* the value of seq loaded by line 99, network thread
    subscribed,         \* client.subscribe(TOPIC_DCMD) was called (175)
    link,               \* the transport connection: "down" or "up"
    conn,               \* number of connect events so far
    ticks,              \* number of ticks started so far
    last,               \* history: the most recent client.publish call
    accepted,           \* history: the last connect event had rc = 0
    sessions,           \* history: number of connect events with rc = 0
    nbirths,            \* history: NBIRTH publishes since the last connect event
    dbirths,            \* history: DBIRTH publishes since the last connect event
    ndata,              \* history: DDATA publishes since the last DBIRTH
    stamped,            \* history: the seq stamped on the session's last payload
    s0,                 \* SeqSpec: the counter before the first call
    calls,              \* SeqSpec, DiffSpec: number of calls made
    prev0,              \* DiffSpec: the retained snapshot before the call
    bp_in,              \* build_payload's metrics argument, in dict order (93)
    bp_out,             \* build_payload's payload.metrics (102)
    command_file,       \* COMMAND_FILE: "absent" or its content (43-47, 219-222)
    dcmd_msg,           \* msg.payload of the DCMD message being handled (213)
    dcmdPc,             \* network thread: position in on_dcmd
    loop_alive,         \* loop_start's thread is running (236)
    flag0,              \* history: COMMAND_FILE when the message arrived
    handled,            \* number of DCMD messages delivered so far
    v3_snapshot,        \* V3: read_metrics' local metrics, network thread
    v3_delta,           \* V3: read_metrics' local delta, network thread
    v3_keys,            \* V3: the keys that comprehension has yet to visit
    v3_metrics,         \* V3: on_connect's node_metrics / device_metrics
    v3_aliased,         \* V3: previous_metrics names the dictionary the
                        \* pending update of on_connect changes
    v3_main_aliased,    \* V3: so does the main loop's metrics
    v3_stale,           \* V3: the dictionary the main thread iterates has
                        \* grown since the iterator was created
    v3_payload,         \* V3: the names in the main thread's payload
    started,            \* client.connect and client.loop_start were called (235-236)
    group_id,           \* GROUP_ID (39): "unset" stands for None
    node_id,            \* NODE_ID (41)
    subscriber,         \* SerialSpec: the metric values a subscriber holds
    serial              \* SerialSpec: history, the connection's publishes all
                        \* went out and no connect event overlapped a tick

\* The state of build_payload's metric loop (101-118).
encVars == << bp_in, bp_out >>

\* The state only the single-purpose specifications move.
\* The state of the DCMD handling (213-223).
cmdVars == << command_file, dcmd_msg, dcmdPc, loop_alive, flag0, handled >>

\* The state only send_thinkfan_sparkplug_V3.py has: the locals of its
\* on_connect (148-178) and which names share a dictionary.
v3Vars ==
    << v3_snapshot, v3_delta, v3_keys, v3_metrics, v3_aliased,
       v3_main_aliased, v3_stale, v3_payload >>

\* The configuration read at startup and the startup's progress (35-56,
\* 228-236).
cfgVars == << started, group_id, node_id >>

\* What a subscriber of TOPIC_DDATA has put together from the connection's
\* DDATA payloads (259).
subVars == << subscriber, serial >>

auxCore == << encVars, cmdVars, v3Vars, cfgVars >>
auxVars == << auxCore, subVars >>

vars == << connected, seq, first, previous_metrics, mainPc, rm_metrics, delta,
           rm_keys,
           metrics, mainSeq, mainTmp, netPc, netRc, netSeq, netTmp, subscribed,
           link, conn, ticks, last, accepted, sessions, nbirths, dbirths, ndata,
           stamped, s0, calls, prev0, auxVars >>

mainVars == << mainPc, rm_metrics, delta, rm_keys, metrics, mainSeq, mainTmp,
              ticks >>
netVars == << netPc, netRc, netSeq, netTmp, subscribed, conn >>
histVars == << last, accepted, sessions, nbirths, dbirths, ndata, stamped >>
pureVars == << s0, calls, prev0, auxVars >>

\* pureVars without the subscriber's.
coreVars == << s0, calls, prev0, auxCore >>

\* ----------------------------------------------------------- metric names
\* The keys read_metrics always returns (141-152). Spec keeps one of the
\* ten, DiffSpec two: all ten behave alike in the delta and in the tick.
MandatoryNames == {"cpu_percent"}
DiffMandatoryNames == {"cpu_percent", "timestamp"}

\* The key read_metrics adds only when a battery is present (153-154).
OptionalNames == {"battery_percent"}

\* node_metrics of on_connect (178-181).
NodeMetricNames == {"online", "node"}

\* device_metrics of on_connect (187-201), restricted to the modelled names.
DeviceMetricNames ==
    DiffMandatoryNames \cup OptionalNames \cup {"online", "device"}

Values == 0..MaxValue

EmptyDict == [k \in {} |-> 0]

\* Every dictionary read_metrics can build at 141-154 over the mandatory
\* names mand.
SnapshotsOver(mand) ==
    UNION { [mand \cup opt -> Values] : opt \in SUBSET OptionalNames }

Snapshots == SnapshotsOver(MandatoryNames)

\* ------------------------------------------------------------ build_payload
\* payload.seq = seq (98)
StampSeq(s) == s

\* Mutant of NextSeq: the increment without the wrap.
NextSeq_NoWrap(s) == s + 1

\* seq = (seq + 1) % 256 (99)
NextSeq(s) == (s + 1) % SeqModulus

\* ------------------------------------------------------------- read_metrics
\* previous_metrics.get(k, (None, None, None))[2] (160)
GetValue(prev, k) == IF k \in DOMAIN prev THEN prev[k] ELSE None

\* Mutant of KeyChanged: a key the retained snapshot lacks is not reported.
KeyChanged_KnownKeysOnly(prev, cur, k) == k \in DOMAIN prev /\ prev[k] # cur[k]

\* Mutant of KeyChanged: names are compared instead of values, so only a
\* key the retained snapshot lacks is reported.
KeyChanged_NewKeysOnly(prev, cur, k) == k \notin DOMAIN prev

\* The condition of the dict comprehension of 159-160 for the key k:
\* previous_metrics.get(k, (None, None, None))[2] != v[2]
KeyChanged(prev, cur, k) == GetValue(prev, k) # cur[k]

\* The order in which a dictionary built at 141-154 (and extended by
\* on_connect in V3, 160-163 and 170-173) yields its keys: insertion order.
KeyOrder ==
    << "cpu_percent", "timestamp", "battery_percent", "online", "node",
       "device" >>

\* metrics.items() (159): the keys of d in insertion order.
KeysOf(d) == SelectSeq(KeyOrder, LAMBDA k : k \in DOMAIN d)

\* The dictionary d with the entry k: v added.
Put(d, k, v) == [x \in DOMAIN d \cup {k} |-> IF x = k THEN v ELSE d[x]]

\* ------------------------------------------------------------------ publish
\* One client.publish(topic, payload, qos=0) call: the topic's message kind,
\* the names of the payload's metrics and whether it carries a uuid
\* (120-121). With the connection down paho returns an error code without
\* raising, and the caller ignores what publish returns (183, 203, 259): the
\* call changes the program's state the same way whether it succeeds or not.
\* Mutant of Msg: the uuid is attached whatever is_birth says.
Msg_AlwaysUuid(kind, names, isBirth) ==
    [kind |-> kind, names |-> names, uuid |-> TRUE]

Msg(kind, names, isBirth) == [kind |-> kind, names |-> names, uuid |-> isBirth]

NoMsg == [kind |-> "none", names |-> {}, uuid |-> FALSE]

\* --------------------------------------------------------------------- Init
\* build_payload is not running.
EncIdle ==
    /\ bp_in = << >>
    /\ bp_out = << >>

\* The module globals (68-71), both threads and the history before the
\* first connect event.
ProgramInit ==
    /\ connected = FALSE
    /\ seq = 0
    /\ first = TRUE
    /\ previous_metrics = EmptyDict
    /\ mainPc = "wait"
    /\ rm_metrics = EmptyDict
    /\ delta = EmptyDict
    /\ rm_keys = << >>
    /\ metrics = EmptyDict
    /\ mainSeq = 0
    /\ mainTmp = 0
    /\ netPc = "idle"
    /\ netRc = 0
    /\ netSeq = 0
    /\ netTmp = 0
    /\ subscribed = FALSE
    /\ link = "down"
    /\ conn = 0
    /\ ticks = 0
    /\ last = NoMsg
    /\ accepted = FALSE
    /\ sessions = 0
    /\ nbirths = 0
    /\ dbirths = 0
    /\ ndata = 0
    /\ stamped = None
    /\ s0 = 0
    /\ calls = 0
    /\ prev0 = EmptyDict

\* A decoded DCMD payload with the given metrics.
Decoded(ms) == [ok |-> TRUE, metrics |-> ms]

\* Bytes that ParseFromString rejects.
Malformed == [ok |-> FALSE, metrics |-> << >>]

\* COMMAND_FILE was removed at startup (46-47) and no DCMD has arrived.
CmdIdle ==
    /\ command_file = "absent"
    /\ dcmd_msg = Decoded(<< >>)
    /\ dcmdPc = "idle"
    /\ loop_alive = TRUE
    /\ flag0 = "absent"
    /\ handled = 0

\* The values os.getenv("GROUP_ID") can give (39): a name, the empty
\* string, or None when the variable is not set.
GroupIds == {"plant", "", "unset"}

\* The values socket.gethostname() can give (41): a name or the empty
\* string.
NodeIds == {"edge1", ""}

\* Nothing has been published on TOPIC_DDATA.
SubIdle ==
    /\ subscriber = EmptyDict
    /\ serial = TRUE

\* The module-level code has run with a group and a node identifier:
\* client.connect and client.loop_start have been called (235-236).
CfgRunning ==
    /\ started = TRUE
    /\ group_id = "plant"
    /\ node_id = "edge1"

\* The V3 on_connect is not running.
V3Idle ==
    /\ v3_snapshot = EmptyDict
    /\ v3_delta = EmptyDict
    /\ v3_keys = << >>
    /\ v3_metrics = EmptyDict
    /\ v3_aliased = FALSE
    /\ v3_main_aliased = FALSE
    /\ v3_stale = FALSE
    /\ v3_payload = {}

Init ==
    /\ ProgramInit
    /\ EncIdle
    /\ CmdIdle
    /\ V3Idle
    /\ CfgRunning
    /\ SubIdle

\* -------------------------------------------------------------- main thread
\* while not connected: time.sleep(0.2) (239-240)
WaitConnected ==
    /\ mainPc = "wait"
    /\ connected
    /\ mainPc' = "read"
    /\ UNCHANGED << connected, seq, first, previous_metrics, rm_metrics,
                    delta, rm_keys, metrics, mainSeq, mainTmp, ticks, netVars,
                    link, histVars, pureVars >>

\* metrics = read_metrics(): the psutil reads and the dictionary (131-154)
RmSnapshotBody ==
    /\ mainPc = "read"
    /\ ticks < MaxTicks
    /\ \E s \in Snapshots : rm_metrics' = s
    /\ ticks' = ticks + 1
    /\ mainPc' = "rm_check"
    /\ UNCHANGED << connected, seq, first, previous_metrics, delta, rm_keys,
                    metrics, mainSeq, mainTmp, netVars, link, histVars,
                    coreVars >>

RmSnapshot == RmSnapshotBody /\ UNCHANGED subVars

\* if not previous_metrics: (156); when something is retained the
\* comprehension of 159-160 starts to iterate metrics.items()
RmCheckPrevious ==
    /\ mainPc = "rm_check"
    /\ mainPc' = IF previous_metrics = EmptyDict THEN "rm_first" ELSE "rm_delta"
    /\ rm_keys' =
          IF previous_metrics = EmptyDict THEN << >> ELSE KeysOf(rm_metrics)
    /\ UNCHANGED << connected, seq, first, previous_metrics, rm_metrics, delta,
                    metrics, mainSeq, mainTmp, ticks, netVars, link, histVars,
                    pureVars >>

\* Mutant of AfterRead: the emptiness test is missing.
AfterRead_NeverSkip(ret) == "check_first"

\* After read_metrics returns ret: if not metrics: ... (247)
AfterRead(ret) == IF ret = EmptyDict THEN "sleep_skip" ELSE "check_first"

\* previous_metrics = metrics; return metrics (157-158), then 247
RmFirst ==
    /\ mainPc = "rm_first"
    /\ previous_metrics' = rm_metrics
    /\ metrics' = rm_metrics
    /\ mainPc' = AfterRead(rm_metrics)
    /\ UNCHANGED << connected, seq, first, rm_metrics, delta, rm_keys,
                    mainSeq, mainTmp, ticks, netVars, link, histVars, pureVars
                    >>

\* delta = {...} (159-160), one key of metrics.items() at a time: each
\* pass reads the global previous_metrics anew.
RmDelta ==
    /\ mainPc = "rm_delta"
    /\ LET k == Head(rm_keys)
       IN  delta' = IF KeyChanged(previous_metrics, rm_metrics, k)
                    THEN Put(delta, k, rm_metrics[k])
                    ELSE delta
    /\ rm_keys' = Tail(rm_keys)
    /\ mainPc' = IF Tail(rm_keys) = << >> THEN "rm_store" ELSE "rm_delta"
    /\ UNCHANGED << connected, seq, first, previous_metrics, rm_metrics,
                    metrics, mainSeq, mainTmp, ticks, netVars, link, histVars,
                    pureVars >>

\* previous_metrics = metrics; return delta (161-162), then 247
RmStore ==
    /\ mainPc = "rm_store"
    /\ previous_metrics' = rm_metrics
    /\ metrics' = delta
    /\ delta' = EmptyDict
    /\ mainPc' = AfterRead(delta)
    /\ UNCHANGED << connected, seq, first, rm_metrics, rm_keys, mainSeq,
                    mainTmp, ticks, netVars, link, histVars, pureVars >>

\* print("[SKIPPED] No changes."); time.sleep(60); continue (248-250)
SleepSkip ==
    /\ mainPc = "sleep_skip"
    /\ mainPc' = "read"
    /\ rm_metrics' = EmptyDict
    /\ metrics' = EmptyDict
    /\ UNCHANGED << connected, seq, first, previous_metrics, delta, rm_keys,
                    mainSeq, mainTmp, ticks, netVars, link, histVars, pureVars
                    >>

\* if first: (253)
CheckFirst ==
    /\ mainPc = "check_first"
    /\ mainPc' = IF first THEN "override" ELSE "bp_stamp"
    /\ UNCHANGED << connected, seq, first, previous_metrics, rm_metrics,
                    delta, rm_keys, metrics, mainSeq, mainTmp, ticks, netVars,
                    link, histVars, pureVars >>

\* metrics = previous_metrics (254-255)
Override ==
    /\ mainPc = "override"
    /\ metrics' = previous_metrics
    /\ mainPc' = "clear_first"
    /\ UNCHANGED << connected, seq, first, previous_metrics, rm_metrics,
                    delta, rm_keys, mainSeq, mainTmp, ticks, netVars, link,
                    histVars, pureVars >>

\* first = False (256)
ClearFirst ==
    /\ mainPc = "clear_first"
    /\ first' = FALSE
    /\ mainPc' = "bp_stamp"
    /\ UNCHANGED << connected, seq, previous_metrics, rm_metrics, delta,
                    rm_keys, metrics, mainSeq, mainTmp, ticks, netVars, link,
                    histVars, pureVars >>

\* payload = build_payload(metrics): payload.seq = seq (258, 98)
MainStamp ==
    /\ mainPc = "bp_stamp"
    /\ mainSeq' = StampSeq(seq)
    /\ stamped' = StampSeq(seq)
    /\ mainPc' = "bp_load"
    /\ UNCHANGED << connected, seq, first, previous_metrics, rm_metrics,
                    delta, rm_keys, metrics, mainTmp, ticks, netVars, link,
                    last, accepted, sessions, nbirths, dbirths, ndata,
                    pureVars >>

\* seq = (seq + 1) % 256: the read of the global (99)
MainLoad ==
    /\ mainPc = "bp_load"
    /\ mainTmp' = seq
    /\ mainPc' = "bp_store"
    /\ UNCHANGED << connected, seq, first, previous_metrics, rm_metrics,
                    delta, rm_keys, metrics, mainSeq, ticks, netVars, link,
                    histVars, pureVars >>

\* seq = (seq + 1) % 256: the write of the global (99); the metric loop
\* 101-122 touches no shared state
MainStore ==
    /\ mainPc = "bp_store"
    /\ seq' = NextSeq(mainTmp)
    /\ mainTmp' = 0
    /\ mainPc' = "publish"
    /\ UNCHANGED << connected, first, previous_metrics, rm_metrics, delta,
                    rm_keys, metrics, mainSeq, ticks, netVars, link, histVars,
                    pureVars >>

\* client.publish(TOPIC_DDATA, payload, qos=0) (259)
MainPublishBody ==
    /\ mainPc = "publish"
    /\ last' = Msg("DDATA", DOMAIN metrics, FALSE)
    /\ ndata' = IF dbirths > 0 THEN ndata + 1 ELSE ndata
    /\ mainSeq' = 0
    /\ mainPc' = "sleep_sent"
    /\ UNCHANGED << connected, seq, first, previous_metrics, rm_metrics, delta,
                    rm_keys, metrics, mainTmp, ticks, netVars, link, accepted,
                    sessions, nbirths, dbirths, stamped, coreVars >>

MainPublish == MainPublishBody /\ UNCHANGED subVars

\* print(...); time.sleep(60) (260-261)
SleepSent ==
    /\ mainPc = "sleep_sent"
    /\ mainPc' = "read"
    /\ rm_metrics' = EmptyDict
    /\ metrics' = EmptyDict
    /\ UNCHANGED << connected, seq, first, previous_metrics, delta, rm_keys,
                    mainSeq, mainTmp, ticks, netVars, link, histVars, pureVars
                    >>

MainThread ==
    \/ WaitConnected
    \/ RmSnapshot
    \/ RmCheckPrevious
    \/ RmFirst
    \/ RmDelta
    \/ RmStore
    \/ SleepSkip
    \/ CheckFirst
    \/ Override
    \/ ClearFirst
    \/ MainStamp
    \/ MainLoad
    \/ MainStore
    \/ MainPublish
    \/ SleepSent

\* ----------------------------------------------------------- network thread
\* The broker answers a connection attempt (235, or paho's automatic
\* reconnect inside loop_start's thread, 236): paho calls on_connect with
\* the CONNACK return code, 0 for accepted.
ConnectEventBody ==
    /\ started
    /\ netPc = "idle"
    /\ link = "down"
    /\ conn < MaxConnects
    /\ \E rc \in 0..MaxRc :
          /\ netRc' = rc
          /\ link' = IF rc = 0 THEN "up" ELSE "down"
          /\ accepted' = (rc = 0)
          /\ sessions' = IF rc = 0 THEN sessions + 1 ELSE sessions
    /\ conn' = conn + 1
    /\ nbirths' = 0
    /\ dbirths' = 0
    /\ ndata' = 0
    /\ stamped' = IF netRc' = 0 THEN None ELSE stamped
    /\ netPc' = "oc_first"
    /\ UNCHANGED << connected, seq, first, previous_metrics, mainVars, netSeq,
                    netTmp, subscribed, last, coreVars >>

ConnectEvent == ConnectEventBody /\ UNCHANGED subVars

\* The transport connection is lost. No on_disconnect callback is
\* registered (228-233), so no program state changes.
Disconnect ==
    /\ link = "up"
    /\ link' = "down"
    /\ UNCHANGED << connected, seq, first, previous_metrics, mainVars, netVars,
                    histVars, pureVars >>

\* first = True (170)
OcSetFirst ==
    /\ netPc = "oc_first"
    /\ first' = TRUE
    /\ netPc' = "oc_prev"
    /\ UNCHANGED << connected, seq, previous_metrics, mainVars, netRc, netSeq,
                    netTmp, subscribed, conn, link, histVars, pureVars >>

\* Mutant of OcClearPrevious: the callback goes on to the births whatever
\* rc is.
OcClearPrevious_IgnoreRc ==
    /\ netPc = "oc_prev"
    /\ previous_metrics' = EmptyDict
    /\ netPc' = "oc_connected"
    /\ netRc' = 0
    /\ UNCHANGED << connected, seq, first, mainVars, netSeq, netTmp,
                    subscribed, conn, link, histVars, pureVars >>

\* previous_metrics = {} (171); if rc == 0: ... else: print(...) (172,
\* 207-208)
OcClearPrevious ==
    /\ netPc = "oc_prev"
    /\ previous_metrics' = EmptyDict
    /\ netPc' = IF netRc = 0 THEN "oc_connected" ELSE "idle"
    /\ netRc' = 0
    /\ UNCHANGED << connected, seq, first, mainVars, netSeq, netTmp,
                    subscribed, conn, link, histVars, pureVars >>

\* connected = True (173)
OcConnected ==
    /\ netPc = "oc_connected"
    /\ connected' = TRUE
    /\ netPc' = "oc_subscribe"
    /\ UNCHANGED << seq, first, previous_metrics, mainVars, netRc, netSeq,
                    netTmp, subscribed, conn, link, histVars, pureVars >>

\* print(...); client.subscribe(TOPIC_DCMD) (174-175)
OcSubscribe ==
    /\ netPc = "oc_subscribe"
    /\ subscribed' = TRUE
    /\ netPc' = "nb_stamp"
    /\ UNCHANGED << connected, seq, first, previous_metrics, mainVars, netRc,
                    netSeq, netTmp, conn, link, histVars, pureVars >>

\* build_payload(..., is_birth=True): payload.seq = seq (98)
NetStamp(at, next) ==
    /\ netPc = at
    /\ netSeq' = StampSeq(seq)
    /\ stamped' = StampSeq(seq)
    /\ netPc' = next
    /\ UNCHANGED << connected, seq, first, previous_metrics, mainVars, netRc,
                    netTmp, subscribed, conn, link, last, accepted, sessions,
                    nbirths, dbirths, ndata, pureVars >>

\* seq = (seq + 1) % 256: the read of the global (99)
NetLoad(at, next) ==
    /\ netPc = at
    /\ netTmp' = seq
    /\ netPc' = next
    /\ UNCHANGED << connected, seq, first, previous_metrics, mainVars, netRc,
                    netSeq, subscribed, conn, link, histVars, pureVars >>

\* seq = (seq + 1) % 256: the write of the global (99)
NetStore(at, next) ==
    /\ netPc = at
    /\ seq' = NextSeq(netTmp)
    /\ netTmp' = 0
    /\ netPc' = next
    /\ UNCHANGED << connected, first, previous_metrics, mainVars, netRc,
                    netSeq, subscribed, conn, link, histVars, pureVars >>

\* nbirth_payload = build_payload(node_metrics, is_birth=True) (178-182)
OcNbStamp == NetStamp("nb_stamp", "nb_load")
OcNbLoad == NetLoad("nb_load", "nb_store")
OcNbStore == NetStore("nb_store", "nb_publish")

\* Mutant of OcNbPublish: the node birth goes out on the device topic.
OcNbPublish_OnDeviceTopic ==
    /\ netPc = "nb_publish"
    /\ last' = Msg("DBIRTH", NodeMetricNames, TRUE)
    /\ dbirths' = dbirths + 1
    /\ netSeq' = 0
    /\ netPc' = "db_stamp"
    /\ UNCHANGED << connected, seq, first, previous_metrics, mainVars, netRc,
                    netTmp, subscribed, conn, link, accepted, sessions,
                    nbirths, ndata, stamped, pureVars >>

\* client.publish(TOPIC_NBIRTH, nbirth_payload, qos=0) (183-184)
OcNbPublish ==
    /\ netPc = "nb_publish"
    /\ last' = Msg("NBIRTH", NodeMetricNames, TRUE)
    /\ nbirths' = nbirths + 1
    /\ netSeq' = 0
    /\ netPc' = "db_stamp"
    /\ UNCHANGED << connected, seq, first, previous_metrics, mainVars, netRc,
                    netTmp, subscribed, conn, link, accepted, sessions,
                    dbirths, ndata, stamped, pureVars >>

\* dbirth_payload = build_payload(device_metrics, is_birth=True) (187-202)
OcDbStamp == NetStamp("db_stamp", "db_load")
OcDbLoad == NetLoad("db_load", "db_store")
OcDbStore == NetStore("db_store", "db_publish")

\* client.publish(TOPIC_DBIRTH, dbirth_payload, qos=0) (203-204)
OcDbPublish ==
    /\ netPc = "db_publish"
    /\ last' = Msg("DBIRTH", DeviceMetricNames, TRUE)
    /\ dbirths' = dbirths + 1
    /\ netSeq' = 0
    /\ netPc' = "settle"
    /\ UNCHANGED << connected, seq, first, previous_metrics, mainVars, netRc,
                    netTmp, subscribed, conn, link, accepted, sessions,
                    nbirths, ndata, stamped, pureVars >>

\* time.sleep(5), then on_connect returns (206)
OcSettle ==
    /\ netPc = "settle"
    /\ netPc' = "idle"
    /\ UNCHANGED << connected, seq, first, previous_metrics, mainVars, netRc,
                    netSeq, netTmp, subscribed, conn, link, histVars,
                    pureVars >>

on_connect ==
    \/ OcSetFirst
    \/ OcClearPrevious
    \/ OcConnected
    \/ OcSubscribe
    \/ OcNbStamp
    \/ OcNbLoad
    \/ OcNbStore
    \/ OcNbPublish
    \/ OcDbStamp
    \/ OcDbLoad
    \/ OcDbStore
    \/ OcDbPublish
    \/ OcSettle

Next ==
    \/ MainThread
    \/ ConnectEvent
    \/ Disconnect
    \/ on_connect

Spec == Init /\ [][Next]_vars

\* ------------------------------------------------------------------ startup
\* The module-level code: the configuration is read (35-43), the topics
\* are formatted from GROUP_ID, NODE_ID and DEVICE_ID (52-56), the client
\* is created and its callbacks set (228-233), client.connect and
\* client.loop_start are called (235-236). Nothing looks at the
\* identifiers' values.
Startup ==
    /\ ~started
    /\ started' = TRUE
    /\ UNCHANGED << connected, seq, first, previous_metrics, mainVars, netVars,
                    link, histVars, s0, calls, prev0, encVars, cmdVars,
                    v3Vars, group_id, node_id, subVars >>

\* StartSpec: the program from its first line, for every value the group
\* and node identifiers can have.
StartInit ==
    /\ ProgramInit
    /\ EncIdle
    /\ CmdIdle
    /\ V3Idle
    /\ SubIdle
    /\ started = FALSE
    /\ group_id \in GroupIds
    /\ node_id \in NodeIds

StartNext ==
    \/ Startup
    \/ Next

StartSpec == StartInit /\ [][StartNext]_vars

\* ------------------------------------------------ build_payload on its own
\* SeqSpec: consecutive build_payload calls by one thread, from any value
\* the counter can hold.
SeqInit ==
    /\ EncIdle
    /\ CmdIdle
    /\ V3Idle
    /\ CfgRunning
    /\ SubIdle
    /\ seq \in 0..(SeqModulus - 1)
    /\ s0 = seq
    /\ mainPc = "bp_stamp"
    /\ connected = TRUE
    /\ first = FALSE
    /\ previous_metrics = EmptyDict
    /\ rm_metrics = EmptyDict
    /\ delta = EmptyDict
    /\ rm_keys = << >>
    /\ metrics = EmptyDict
    /\ mainSeq = 0
    /\ mainTmp = 0
    /\ netPc = "idle"
    /\ netRc = 0
    /\ netSeq = 0
    /\ netTmp = 0
    /\ subscribed = TRUE
    /\ link = "up"
    /\ conn = 0
    /\ ticks = 0
    /\ last = NoMsg
    /\ accepted = FALSE
    /\ sessions = 0
    /\ nbirths = 0
    /\ dbirths = 0
    /\ ndata = 0
    /\ stamped = None
    /\ calls = 0
    /\ prev0 = EmptyDict

\* build_payload returns (122) and is called again.
SeqReturn ==
    /\ mainPc = "publish"
    /\ calls + 1 < MaxCalls
    /\ calls' = calls + 1
    /\ mainSeq' = 0
    /\ mainPc' = "bp_stamp"
    /\ UNCHANGED << connected, seq, first, previous_metrics, rm_metrics,
                    delta, rm_keys, metrics, mainTmp, ticks, netVars, link,
                    histVars, s0, prev0, auxVars >>

SeqNext ==
    \/ MainStamp
    \/ MainLoad
    \/ MainStore
    \/ SeqReturn

SeqSpec == SeqInit /\ [][SeqNext]_vars

\* ------------------------------------------------- read_metrics on its own
\* DiffSpec: one read_metrics call from line 156 on, by the main thread
\* alone, for every retained snapshot and every new snapshot.
DiffInit ==
    /\ EncIdle
    /\ CmdIdle
    /\ V3Idle
    /\ CfgRunning
    /\ SubIdle
    /\ previous_metrics \in SnapshotsOver(DiffMandatoryNames) \cup {EmptyDict}
    /\ prev0 = previous_metrics
    /\ rm_metrics \in SnapshotsOver(DiffMandatoryNames)
    /\ mainPc = "rm_check"
    /\ connected = TRUE
    /\ seq = 0
    /\ first = FALSE
    /\ delta = EmptyDict
    /\ rm_keys = << >>
    /\ metrics = EmptyDict
    /\ mainSeq = 0
    /\ mainTmp = 0
    /\ netPc = "idle"
    /\ netRc = 0
    /\ netSeq = 0
    /\ netTmp = 0
    /\ subscribed = TRUE
    /\ link = "up"
    /\ conn = 0
    /\ ticks = 0
    /\ last = NoMsg
    /\ accepted = FALSE
    /\ sessions = 0
    /\ nbirths = 0
    /\ dbirths = 0
    /\ ndata = 0
    /\ stamped = None
    /\ s0 = 0
    /\ calls = 0

DiffNext ==
    \/ RmCheckPrevious
    \/ RmFirst
    \/ RmDelta
    \/ RmStore

DiffSpec == DiffInit /\ [][DiffNext]_vars

\* ------------------------------------------ build_payload's metric loop
\* Sparkplug B data types (61-63)
INT8 == 1
INT16 == 2
INT32 == 3
INT64 == 4
UINT8 == 5
UINT16 == 6
UINT32 == 7
UINT64 == 8
FLOAT == 9
DOUBLE == 10
BOOLEAN_DT == 11
STRING_DT == 12
DATETIME == 13

DataTypes == INT8..DATETIME

\* The datatype read_metrics gives each metric (141-154).
MetricTypes ==
    [ cpu_percent |-> DOUBLE, mem_used_mb |-> INT64, mem_total_mb |-> INT64,
      disk_used_gb |-> INT64, disk_total_gb |-> INT64, fan_speed |-> INT64,
      cpu_temp |-> DOUBLE, bytes_sent |-> UINT64, bytes_recv |-> UINT64,
      timestamp |-> STRING_DT, battery_percent |-> DOUBLE ]

\* The datatype on_connect's device_metrics gives each metric (187-201).
DeviceTypes ==
    [ cpu_percent |-> DOUBLE, mem_used_mb |-> INT64, mem_total_mb |-> INT64,
      disk_used_gb |-> INT64, disk_total_gb |-> INT64, fan_speed |-> INT64,
      cpu_temp |-> DOUBLE, bytes_sent |-> UINT64, bytes_recv |-> UINT64,
      timestamp |-> STRING_DT, battery_percent |-> DOUBLE,
      online |-> BOOLEAN_DT, device |-> STRING_DT ]

\* alias_map (73-88)
alias_map ==
    [ cpu_percent |-> 0, mem_used_mb |-> 1, mem_total_mb |-> 2,
      disk_used_gb |-> 3, disk_total_gb |-> 4, fan_speed |-> 5,
      cpu_temp |-> 6, bytes_sent |-> 7, bytes_recv |-> 8, timestamp |-> 9,
      online |-> 10, node |-> 11, battery_percent |-> 12, device |-> 13 ]

\* alias_map.get(name, 255) (103)
AliasOf(name) ==
    IF name \in DOMAIN alias_map THEN alias_map[name] ELSE UnmappedAlias

\* The if/elif chain of 107-118: the value fields it sets for a datatype.
\* No branch matches DATETIME.
ValueFields(datatype) ==
    IF datatype \in {INT8, INT16, INT32, UINT8, UINT16, UINT32}
        THEN {"int_value"}
    ELSE IF datatype \in {INT64, UINT64} THEN {"long_value"}
    ELSE IF datatype = FLOAT THEN {"float_value"}
    ELSE IF datatype = DOUBLE THEN {"double_value"}
    ELSE IF datatype = STRING_DT THEN {"string_value"}
    ELSE IF datatype = BOOLEAN_DT THEN {"boolean_value"}
    ELSE {}

\* int(value), float(value), str(value), bool(value) (108-118), for the
\* integer values of the model.
Convert(field, value) ==
    IF field = "string_value" THEN ToString(value)
    ELSE IF field = "boolean_value" THEN value # 0
    ELSE value

\* One metric as the loop body leaves it (102-118).
EncodeMetric(m) ==
    [ alias |-> AliasOf(m.name),
      name |-> m.name,
      datatype |-> m.datatype,
      fields |-> [f \in ValueFields(m.datatype) |-> Convert(f, m.value)] ]

\* Metric names handed to build_payload: one of the table, one it lacks.
EncNames == {"cpu_percent", "gpu_temp"}

\* The (name, datatype, value) tuples of a metrics dictionary.
EncMetrics == [name : EncNames, datatype : DataTypes, value : Values]

\* One iteration of for _, (name, datatype, value) in metrics.items()
\* (101-118).
BpAddMetric ==
    /\ Len(bp_out) < Len(bp_in)
    /\ bp_out' = Append(bp_out, EncodeMetric(bp_in[Len(bp_out) + 1]))
    /\ UNCHANGED << connected, seq, first, previous_metrics, mainVars, netVars,
                    link, histVars, s0, calls, prev0, bp_in, cmdVars, v3Vars,
                    cfgVars, subVars >>

\* EncSpec: build_payload's metric loop for every dictionary of one to
\* MaxMetrics metrics of any declared datatype.
EncInit ==
    /\ ProgramInit
    /\ bp_in \in UNION { [1..n -> EncMetrics] : n \in 1..MaxMetrics }
    /\ bp_out = << >>
    /\ CmdIdle
    /\ V3Idle
    /\ CfgRunning
    /\ SubIdle

EncNext == BpAddMetric

EncSpec == EncInit /\ [][EncNext]_vars

\* ------------------------------------------------------------------ on_dcmd
\* os.path.isfile(COMMAND_FILE) and
\* open(COMMAND_FILE).read().strip().upper() == "TRUE" (219)
Current(file) == file # "absent" /\ file = "TRUE"

\* Mutant of New: the flag is written back as it was read.
New_Keep(current) == current

\* new = not current (220)
New(current) == ~current

\* f.write("TRUE" if new else "FALSE") (221-222)
Written(new) == IF new THEN "TRUE" ELSE "FALSE"

\* Mutant of IsCommand: every metric of the payload is taken for a command.
IsCommand_AnyName(name) == TRUE

\* if metric.name == "boolean_command": (218)
IsCommand(name) == name = "boolean_command"

\* Mutant of AfterMetric: the command's value is written to the flag.
AfterMetric_SetsValue(file, m) ==
    IF IsCommand(m.name) THEN Written(m.value) ELSE file

\* COMMAND_FILE after one pass of the loop body (218-223) over the metric m,
\* starting from the content file.
AfterMetric(file, m) ==
    IF IsCommand(m.name) THEN Written(New(Current(file))) ELSE file

\* COMMAND_FILE after the loop of 217-223 has run over the metrics ms,
\* starting from the content file.
RECURSIVE AfterMetrics(_, _)
AfterMetrics(file, ms) ==
    IF ms = << >> THEN file
    ELSE AfterMetrics(AfterMetric(file, Head(ms)), Tail(ms))

\* Metric names of inbound DCMD payloads: the command and another name.
DcmdNames == {"boolean_command", "reboot"}

\* The metrics of an inbound DCMD payload: name and Boolean value.
DcmdMetrics ==
    [name : DcmdNames, datatype : {BOOLEAN_DT, INT32}, value : BOOLEAN]

\* The payloads the broker can deliver on TOPIC_DCMD.
DcmdPayloads ==
    {Malformed} \cup
    { Decoded(ms) : ms \in UNION { [1..n -> DcmdMetrics] : n \in 0..MaxMetrics } }

\* paho's network thread reads a message on TOPIC_DCMD and calls the
\* callback registered at 233.
DcmdArrive ==
    /\ dcmdPc = "idle"
    /\ netPc = "idle"
    /\ subscribed
    /\ loop_alive
    /\ handled < MaxCmds
    /\ \E p \in DcmdPayloads : dcmd_msg' = p
    /\ flag0' = command_file
    /\ handled' = handled + 1
    /\ dcmdPc' = "on_dcmd"
    /\ UNCHANGED << connected, seq, first, previous_metrics, mainVars, netVars,
                    link, histVars, s0, calls, prev0, encVars, command_file,
                    loop_alive, v3Vars, cfgVars, subVars >>

\* on_dcmd (213-223). ParseFromString (216) raises DecodeError on bytes
\* that do not decode; on_dcmd does not catch it and paho re-raises an
\* exception of a callback (suppress_exceptions is off by default), which
\* ends the thread loop_start created. Otherwise the loop of 217-223 runs
\* and on_dcmd returns.
on_dcmd ==
    /\ dcmdPc = "on_dcmd"
    /\ IF dcmd_msg.ok
          THEN /\ command_file' = AfterMetrics(command_file, dcmd_msg.metrics)
               /\ dcmdPc' = "idle"
               /\ UNCHANGED loop_alive
          ELSE /\ loop_alive' = FALSE
               /\ dcmdPc' = "raised"
               /\ UNCHANGED command_file
    /\ UNCHANGED << connected, seq, first, previous_metrics, mainVars, netVars,
                    link, histVars, s0, calls, prev0, encVars, dcmd_msg, flag0,
                    handled, v3Vars, cfgVars, subVars >>

\* CmdSpec: DCMD messages arriving once the first on_connect has returned
\* (NBIRTH and DBIRTH published with seq 0 and 1, TOPIC_DCMD subscribed) and
\* before the main thread has left its wait loop.
CmdInit ==
    /\ connected = TRUE
    /\ seq = 2
    /\ first = TRUE
    /\ previous_metrics = EmptyDict
    /\ mainPc = "wait"
    /\ rm_metrics = EmptyDict
    /\ delta = EmptyDict
    /\ rm_keys = << >>
    /\ metrics = EmptyDict
    /\ mainSeq = 0
    /\ mainTmp = 0
    /\ netPc = "idle"
    /\ netRc = 0
    /\ netSeq = 0
    /\ netTmp = 0
    /\ subscribed = TRUE
    /\ link = "up"
    /\ conn = 1
    /\ ticks = 0
    /\ last = Msg("DBIRTH", DeviceMetricNames, TRUE)
    /\ accepted = TRUE
    /\ sessions = 1
    /\ nbirths = 1
    /\ dbirths = 1
    /\ ndata = 0
    /\ stamped = 1
    /\ s0 = 0
    /\ calls = 0
    /\ prev0 = EmptyDict
    /\ EncIdle
    /\ CmdIdle
    /\ V3Idle
    /\ CfgRunning
    /\ SubIdle

CmdNext ==
    \/ DcmdArrive
    \/ on_dcmd

CmdSpec == CmdInit /\ [][CmdNext]_vars

\* ------------------------------------------- send_thinkfan_sparkplug_V3.py
\* dict.update: the entries of extra added to, or replacing those of, d.
Update(d, extra) ==
    [k \in DOMAIN d \cup DOMAIN extra |->
        IF k \in DOMAIN extra THEN extra[k] ELSE d[k]]

\* {"online": (.., BOOLEAN, True), "node": (.., STRING, NODE_ID)} (V3 160-163)
V3NodeExtra == [online |-> 1, node |-> 0]

\* {"online": (.., BOOLEAN, True), "device": (.., STRING, DEVICE_ID)}
\* (V3 170-173)
V3DeviceExtra == [online |-> 1, device |-> 0]

\* The dictionaries read_metrics builds (V3 120-135): of the ten keys it
\* always has the model keeps two, cpu_percent and timestamp.
V3Snapshots == SnapshotsOver(DiffMandatoryNames)

\* The meta fields the main loop removes before DDATA (V3 219).
V3MetaNames == {"online", "node", "device"}

\* What no step of V3Spec changes: the connection is the first one, it
\* was accepted and it stays up.
v3Fixed ==
    << connected, netRc, subscribed, conn, link, accepted, sessions, s0, calls,
       prev0, encVars, cmdVars, cfgVars, subVars >>

\* The locals of the V3 main loop, its read_metrics and its build_payload
\* (V3 211-231).
v3MainLocals ==
    << mainPc, rm_metrics, delta, rm_keys, mainSeq, mainTmp, ticks,
       v3_payload >>

\* The locals of the V3 on_connect, its read_metrics and its build_payload
\* (V3 148-180).
v3NetLocals ==
    << netPc, netSeq, netTmp, v3_snapshot, v3_delta, v3_keys, v3_metrics >>

\* After read_metrics returns ret to the main loop: if not metrics: (V3 214)
V3AfterRead(ret) == IF ret = EmptyDict THEN "sleep_skip" ELSE "v3_filter"

\* ---- the main thread of V3 (208-231)

\* while not connected: time.sleep(0.1) (V3 208-209)
V3Wait ==
    /\ mainPc = "wait"
    /\ connected
    /\ mainPc' = "read"
    /\ UNCHANGED << v3Fixed, rm_metrics, delta, rm_keys, mainSeq, mainTmp,
                    ticks, v3_payload, v3NetLocals, seq, first,
                    previous_metrics, metrics, v3_aliased, v3_main_aliased,
                    v3_stale, last, nbirths, dbirths, ndata, stamped >>

\* metrics = read_metrics(): the psutil reads and the dictionary (V3 213,
\* 109-135)
V3MainSnapshot ==
    /\ mainPc = "read"
    /\ ticks < V3MaxTicks
    /\ \E s \in V3Snapshots : rm_metrics' = s
    /\ ticks' = ticks + 1
    /\ mainPc' = "rm_check"
    /\ UNCHANGED << v3Fixed, delta, rm_keys, mainSeq, mainTmp, v3_payload,
                    v3NetLocals, seq, first, previous_metrics, metrics,
                    v3_aliased, v3_main_aliased, v3_stale, last, nbirths,
                    dbirths, ndata, stamped >>

\* if previous_metrics: (V3 138); when something is retained the
\* comprehension of 139-140 starts to iterate metrics.items()
V3MainCheck ==
    /\ mainPc = "rm_check"
    /\ mainPc' = IF previous_metrics # EmptyDict THEN "rm_delta" ELSE "rm_first"
    /\ rm_keys' =
          IF previous_metrics # EmptyDict THEN KeysOf(rm_metrics) ELSE << >>
    /\ UNCHANGED << v3Fixed, rm_metrics, delta, mainSeq, mainTmp, ticks,
                    v3_payload, v3NetLocals, seq, first, previous_metrics,
                    metrics, v3_aliased, v3_main_aliased, v3_stale, last,
                    nbirths, dbirths, ndata, stamped >>

\* delta = {...} (V3 139-140), one key at a time: each pass reads the global
\* previous_metrics anew
V3MainDelta ==
    /\ mainPc = "rm_delta"
    /\ LET k == Head(rm_keys)
       IN  delta' = IF KeyChanged(previous_metrics, rm_metrics, k)
                    THEN Put(delta, k, rm_metrics[k])
                    ELSE delta
    /\ rm_keys' = Tail(rm_keys)
    /\ mainPc' = IF Tail(rm_keys) = << >> THEN "rm_store" ELSE "rm_delta"
    /\ UNCHANGED << v3Fixed, rm_metrics, mainSeq, mainTmp, ticks, v3_payload,
                    v3NetLocals, seq, first, previous_metrics, metrics,
                    v3_aliased, v3_main_aliased, v3_stale, last, nbirths,
                    dbirths, ndata, stamped >>

\* previous_metrics = metrics; return delta (V3 141-142), then 214: the
\* global names the main thread's snapshot, the main loop a new dictionary
V3MainStoreDelta ==
    /\ mainPc = "rm_store"
    /\ previous_metrics' = rm_metrics
    /\ metrics' = delta
    /\ delta' = EmptyDict
    /\ v3_aliased' = FALSE
    /\ v3_main_aliased' = FALSE
    /\ mainPc' = V3AfterRead(delta)
    /\ UNCHANGED << v3Fixed, rm_metrics, rm_keys, mainSeq, mainTmp, ticks,
                    v3_payload, v3NetLocals, seq, first, v3_stale, last,
                    nbirths, dbirths, ndata, stamped >>

\* previous_metrics = metrics; return metrics (V3 144-145), then 214
V3MainStoreFull ==
    /\ mainPc = "rm_first"
    /\ previous_metrics' = rm_metrics
    /\ metrics' = rm_metrics
    /\ v3_aliased' = FALSE
    /\ v3_main_aliased' = FALSE
    /\ mainPc' = V3AfterRead(rm_metrics)
    /\ UNCHANGED << v3Fixed, rm_metrics, delta, rm_keys, mainSeq, mainTmp,
                    ticks, v3_payload, v3NetLocals, seq, first, v3_stale, last,
                    nbirths, dbirths, ndata, stamped >>

\* print(...); time.sleep(60); continue (V3 215-217)
V3SleepSkip ==
    /\ mainPc = "sleep_skip"
    /\ mainPc' = "read"
    /\ rm_metrics' = EmptyDict
    /\ metrics' = EmptyDict
    /\ v3_main_aliased' = FALSE
    /\ UNCHANGED << v3Fixed, delta, rm_keys, mainSeq, mainTmp, ticks,
                    v3_payload, v3NetLocals, seq, first, previous_metrics,
                    v3_aliased, v3_stale, last, nbirths, dbirths, ndata,
                    stamped >>

\* metrics = {k: v for k, v in metrics.items() if k not in (...)} (V3 219): a
\* new dictionary; the one iterated is named by nothing on_connect updates
V3Filter ==
    /\ mainPc = "v3_filter"
    /\ metrics' = [k \in DOMAIN metrics \ V3MetaNames |-> metrics[k]]
    /\ v3_main_aliased' = FALSE
    /\ mainPc' = "check_first"
    /\ UNCHANGED << v3Fixed, rm_metrics, delta, rm_keys, mainSeq, mainTmp,
                    ticks, v3_payload, v3NetLocals, seq, first,
                    previous_metrics, v3_aliased, v3_stale, last, nbirths,
                    dbirths, ndata, stamped >>

\* if first: (V3 221)
V3CheckFirst ==
    /\ mainPc = "check_first"
    /\ mainPc' = IF first THEN "override" ELSE "bp_stamp"
    /\ UNCHANGED << v3Fixed, rm_metrics, delta, rm_keys, mainSeq, mainTmp,
                    ticks, v3_payload, v3NetLocals, seq, first,
                    previous_metrics, metrics, v3_aliased, v3_main_aliased,
                    v3_stale, last, nbirths, dbirths, ndata, stamped >>

\* metrics = previous_metrics (V3 223): the main loop now names the object
\* the global names, which is on_connect's dictionary when v3_aliased
V3Override ==
    /\ mainPc = "override"
    /\ metrics' = previous_metrics
    /\ v3_main_aliased' = v3_aliased
    /\ mainPc' = "clear_first"
    /\ UNCHANGED << v3Fixed, rm_metrics, delta, rm_keys, mainSeq, mainTmp,
                    ticks, v3_payload, v3NetLocals, seq, first,
                    previous_metrics, v3_aliased, v3_stale, last, nbirths,
                    dbirths, ndata, stamped >>

\* first = False (V3 224)
V3ClearFirst ==
    /\ mainPc = "clear_first"
    /\ first' = FALSE
    /\ mainPc' = "bp_stamp"
    /\ UNCHANGED << v3Fixed, rm_metrics, delta, rm_keys, mainSeq, mainTmp,
                    ticks, v3_payload, v3NetLocals, seq, previous_metrics,
                    metrics, v3_aliased, v3_main_aliased, v3_stale, last,
                    nbirths, dbirths, ndata, stamped >>

\* payload = build_payload(metrics): payload.seq = seq (V3 226, 80)
V3MainStamp ==
    /\ mainPc = "bp_stamp"
    /\ mainSeq' = StampSeq(seq)
    /\ stamped' = StampSeq(seq)
    /\ mainPc' = "bp_load"
    /\ UNCHANGED << v3Fixed, rm_metrics, delta, rm_keys, mainTmp, ticks,
                    v3_payload, v3NetLocals, seq, first, previous_metrics,
                    metrics, v3_aliased, v3_main_aliased, v3_stale, last,
                    nbirths, dbirths, ndata >>

\* seq = (seq + 1) % 256: the read of the global (V3 81)
V3MainLoad ==
    /\ mainPc = "bp_load"
    /\ mainTmp' = seq
    /\ mainPc' = "bp_store"
    /\ UNCHANGED << v3Fixed, rm_metrics, delta, rm_keys, mainSeq, ticks,
                    v3_payload, v3NetLocals, seq, first, previous_metrics,
                    metrics, v3_aliased, v3_main_aliased, v3_stale, last,
                    nbirths, dbirths, ndata, stamped >>

\* seq = (seq + 1) % 256: the write of the global (V3 81)
V3MainStore ==
    /\ mainPc = "bp_store"
    /\ seq' = NextSeq(mainTmp)
    /\ mainTmp' = 0
    /\ mainPc' = "bp_iter"
    /\ UNCHANGED << v3Fixed, rm_metrics, delta, rm_keys, mainSeq, ticks,
                    v3_payload, v3NetLocals, first, previous_metrics, metrics,
                    v3_aliased, v3_main_aliased, v3_stale, last, nbirths,
                    dbirths, ndata, stamped >>

\* for _, (name, datatype, value) in metrics.items(): (V3 86): the iterator
\* is created
V3MainIter ==
    /\ mainPc = "bp_iter"
    /\ v3_stale' = FALSE
    /\ mainPc' = "bp_loop"
    /\ UNCHANGED << v3Fixed, rm_metrics, delta, rm_keys, mainSeq, mainTmp,
                    ticks, v3_payload, v3NetLocals, seq, first,
                    previous_metrics, metrics, v3_aliased, v3_main_aliased,
                    last, nbirths, dbirths, ndata, stamped >>

\* The loop of V3 86-104 runs to its end and build_payload returns (106);
\* when the dictionary has grown since the iterator was created the next
\* fetch raises RuntimeError, which nothing catches
V3MainLoop ==
    /\ mainPc = "bp_loop"
    /\ v3_payload' = IF v3_stale THEN v3_payload ELSE DOMAIN metrics
    /\ mainPc' = IF v3_stale THEN "raised" ELSE "publish"
    /\ UNCHANGED << v3Fixed, rm_metrics, delta, rm_keys, mainSeq, mainTmp,
                    ticks, v3NetLocals, seq, first, previous_metrics, metrics,
                    v3_aliased, v3_main_aliased, v3_stale, last, nbirths,
                    dbirths, ndata, stamped >>

\* client.publish(TOPIC_DDATA, payload, qos=0) (V3 227)
V3MainPublish ==
    /\ mainPc = "publish"
    /\ last' = Msg("DDATA", v3_payload, FALSE)
    /\ ndata' = IF dbirths > 0 THEN ndata + 1 ELSE ndata
    /\ mainSeq' = 0
    /\ v3_payload' = {}
    /\ mainPc' = "print_iter"
    /\ UNCHANGED << v3Fixed, rm_metrics, delta, rm_keys, mainTmp, ticks,
                    v3NetLocals, seq, first, previous_metrics, metrics,
                    v3_aliased, v3_main_aliased, v3_stale, nbirths, dbirths,
                    stamped >>

\* print(f"... {k}: {v[2]} for k, v in metrics.items() ...") (V3 228): the
\* iterator is created
V3PrintIter ==
    /\ mainPc = "print_iter"
    /\ v3_stale' = FALSE
    /\ mainPc' = "print_loop"
    /\ UNCHANGED << v3Fixed, rm_metrics, delta, rm_keys, mainSeq, mainTmp,
                    ticks, v3_payload, v3NetLocals, seq, first,
                    previous_metrics, metrics, v3_aliased, v3_main_aliased,
                    last, nbirths, dbirths, ndata, stamped >>

\* The generator of V3 228 runs to its end; RuntimeError when the dictionary
\* has grown meanwhile
V3PrintLoop ==
    /\ mainPc = "print_loop"
    /\ mainPc' = IF v3_stale THEN "raised" ELSE "sleep_sent"
    /\ UNCHANGED << v3Fixed, rm_metrics, delta, rm_keys, mainSeq, mainTmp,
                    ticks, v3_payload, v3NetLocals, seq, first,
                    previous_metrics, metrics, v3_aliased, v3_main_aliased,
                    v3_stale, last, nbirths, dbirths, ndata, stamped >>

\* time.sleep(60) (V3 230)
V3SleepSent ==
    /\ mainPc = "sleep_sent"
    /\ mainPc' = "read"
    /\ rm_metrics' = EmptyDict
    /\ metrics' = EmptyDict
    /\ v3_main_aliased' = FALSE
    /\ UNCHANGED << v3Fixed, delta, rm_keys, mainSeq, mainTmp, ticks,
                    v3_payload, v3NetLocals, seq, first, previous_metrics,
                    v3_aliased, v3_stale, last, nbirths, dbirths, ndata,
                    stamped >>

\* ---- on_connect of V3 (148-180), from the first read_metrics call on.
\* paho's thread is a daemon: once the main thread has ended on an
\* exception it goes on until the interpreter exits, which is any prefix
\* of what follows.


\* read_metrics (V3 159, 169): the psutil reads and the dictionary (109-135)
V3ReadSnapshot(at, next) ==
    /\ netPc = at
    /\ \E s \in V3Snapshots : v3_snapshot' = s
    /\ netPc' = next
    /\ UNCHANGED << v3Fixed, v3MainLocals, netSeq, netTmp, v3_delta, v3_keys,
                    v3_metrics, seq, first, previous_metrics, metrics,
                    v3_aliased, v3_main_aliased, v3_stale, last, nbirths,
                    dbirths, ndata, stamped >>

\* if previous_metrics: (V3 138)
V3ReadCheck(at, toDelta, toFull) ==
    /\ netPc = at
    /\ netPc' = IF previous_metrics # EmptyDict THEN toDelta ELSE toFull
    /\ v3_keys' =
          IF previous_metrics # EmptyDict THEN KeysOf(v3_snapshot) ELSE << >>
    /\ v3_delta' = EmptyDict
    /\ UNCHANGED << v3Fixed, v3MainLocals, netSeq, netTmp, v3_snapshot,
                    v3_metrics, seq, first, previous_metrics, metrics,
                    v3_aliased, v3_main_aliased, v3_stale, last, nbirths,
                    dbirths, ndata, stamped >>

\* delta = {...} (V3 139-140), one key at a time
V3ReadDelta(at, next) ==
    /\ netPc = at
    /\ LET k == Head(v3_keys)
       IN  v3_delta' = IF KeyChanged(previous_metrics, v3_snapshot, k)
                       THEN Put(v3_delta, k, v3_snapshot[k])
                       ELSE v3_delta
    /\ v3_keys' = Tail(v3_keys)
    /\ netPc' = IF Tail(v3_keys) = << >> THEN next ELSE at
    /\ UNCHANGED << v3Fixed, v3MainLocals, netSeq, netTmp, v3_snapshot,
                    v3_metrics, seq, first, previous_metrics, metrics,
                    v3_aliased, v3_main_aliased, v3_stale, last, nbirths,
                    dbirths, ndata, stamped >>

\* previous_metrics = metrics; return delta (V3 141-142): on_connect gets a
\* new dictionary, the global names the snapshot
V3ReadStoreDelta(at, next) ==
    /\ netPc = at
    /\ previous_metrics' = v3_snapshot
    /\ v3_metrics' = v3_delta
    /\ v3_delta' = EmptyDict
    /\ v3_aliased' = FALSE
    /\ v3_main_aliased' = FALSE
    /\ netPc' = next
    /\ UNCHANGED << v3Fixed, v3MainLocals, netSeq, netTmp, v3_snapshot,
                    v3_keys, seq, first, metrics, v3_stale, last, nbirths,
                    dbirths, ndata, stamped >>

\* previous_metrics = metrics; return metrics (V3 144-145): on_connect gets
\* the very dictionary the global now names
V3ReadStoreFull(at, next) ==
    /\ netPc = at
    /\ previous_metrics' = v3_snapshot
    /\ v3_metrics' = v3_snapshot
    /\ v3_aliased' = TRUE
    /\ v3_main_aliased' = FALSE
    /\ netPc' = next
    /\ UNCHANGED << v3Fixed, v3MainLocals, netSeq, netTmp, v3_snapshot,
                    v3_delta, v3_keys, seq, first, metrics, v3_stale, last,
                    nbirths, dbirths, ndata, stamped >>

\* node_metrics.update({...}) / device_metrics.update({...}) (V3 160-163,
\* 170-173): the dictionary grows in place, for every name it has; an
\* iterator the main thread holds on it is stale from then on
V3Update(at, next, extra) ==
    /\ netPc = at
    /\ v3_metrics' = Update(v3_metrics, extra)
    /\ previous_metrics' =
          IF v3_aliased THEN Update(previous_metrics, extra)
          ELSE previous_metrics
    /\ metrics' = IF v3_main_aliased THEN Update(metrics, extra) ELSE metrics
    /\ v3_stale' =
          IF v3_main_aliased /\ mainPc \in {"bp_loop", "print_loop"}
          THEN TRUE ELSE v3_stale
    /\ netPc' = next
    /\ UNCHANGED << v3Fixed, v3MainLocals, netSeq, netTmp, v3_snapshot,
                    v3_delta, v3_keys, seq, first, v3_aliased, v3_main_aliased,
                    last, nbirths, dbirths, ndata, stamped >>

\* build_payload(.., is_birth=True): payload.seq = seq (V3 164, 174, 80)
V3NetStamp(at, next) ==
    /\ netPc = at
    /\ netSeq' = StampSeq(seq)
    /\ stamped' = StampSeq(seq)
    /\ netPc' = next
    /\ UNCHANGED << v3Fixed, v3MainLocals, netTmp, v3_snapshot, v3_delta,
                    v3_keys, v3_metrics, seq, first, previous_metrics, metrics,
                    v3_aliased, v3_main_aliased, v3_stale, last, nbirths,
                    dbirths, ndata >>

\* seq = (seq + 1) % 256: the read of the global (V3 81)
V3NetLoad(at, next) ==
    /\ netPc = at
    /\ netTmp' = seq
    /\ netPc' = next
    /\ UNCHANGED << v3Fixed, v3MainLocals, netSeq, v3_snapshot, v3_delta,
                    v3_keys, v3_metrics, seq, first, previous_metrics, metrics,
                    v3_aliased, v3_main_aliased, v3_stale, last, nbirths,
                    dbirths, ndata, stamped >>

\* seq = (seq + 1) % 256: the write of the global (V3 81)
V3NetStore(at, next) ==
    /\ netPc = at
    /\ seq' = NextSeq(netTmp)
    /\ netTmp' = 0
    /\ netPc' = next
    /\ UNCHANGED << v3Fixed, v3MainLocals, netSeq, v3_snapshot, v3_delta,
                    v3_keys, v3_metrics, first, previous_metrics, metrics,
                    v3_aliased, v3_main_aliased, v3_stale, last, nbirths,
                    dbirths, ndata, stamped >>

\* The uuid and the metric loop (V3 83-106), over a dictionary nothing else
\* changes, and client.publish (V3 165, 175)
V3Publish(at, next, kind) ==
    /\ netPc = at
    /\ last' = Msg(kind, DOMAIN v3_metrics, TRUE)
    /\ nbirths' = IF kind = "NBIRTH" THEN nbirths + 1 ELSE nbirths
    /\ dbirths' = IF kind = "DBIRTH" THEN dbirths + 1 ELSE dbirths
    /\ netSeq' = 0
    /\ netPc' = next
    /\ UNCHANGED << v3Fixed, v3MainLocals, netTmp, v3_snapshot, v3_delta,
                    v3_keys, v3_metrics, seq, first, previous_metrics, metrics,
                    v3_aliased, v3_main_aliased, v3_stale, ndata, stamped >>

\* time.sleep(5), then on_connect returns (V3 178)
V3Settle ==
    /\ netPc = "settle"
    /\ netPc' = "idle"
    /\ UNCHANGED << v3Fixed, v3MainLocals, netSeq, netTmp, v3_snapshot,
                    v3_delta, v3_keys, v3_metrics, seq, first,
                    previous_metrics, metrics, v3_aliased, v3_main_aliased,
                    v3_stale, last, nbirths, dbirths, ndata, stamped >>

\* V3Spec: the V3 script on its first, accepted connection, from the line
\* after client.subscribe (V3 156) on: first = True, previous_metrics = {}
\* and connected = True have just been set (V3 150-155) and the main
\* thread is in its wait loop (V3 208-209).
V3Init ==
    /\ connected = TRUE
    /\ seq = 0
    /\ first = TRUE
    /\ previous_metrics = EmptyDict
    /\ mainPc = "wait"
    /\ rm_metrics = EmptyDict
    /\ delta = EmptyDict
    /\ rm_keys = << >>
    /\ metrics = EmptyDict
    /\ mainSeq = 0
    /\ mainTmp = 0
    /\ netPc = "v3_nb_snap"
    /\ netRc = 0
    /\ netSeq = 0
    /\ netTmp = 0
    /\ subscribed = TRUE
    /\ link = "up"
    /\ conn = 1
    /\ ticks = 0
    /\ last = NoMsg
    /\ accepted = TRUE
    /\ sessions = 1
    /\ nbirths = 0
    /\ dbirths = 0
    /\ ndata = 0
    /\ stamped = None
    /\ s0 = 0
    /\ calls = 0
    /\ prev0 = EmptyDict
    /\ EncIdle
    /\ CmdIdle
    /\ V3Idle
    /\ CfgRunning
    /\ SubIdle

\* The main thread (V3 208-231); on_connect's node birth, node_metrics =
\* read_metrics() ... client.publish(TOPIC_NBIRTH, ..) (V3 159-166); its
\* device birth, device_metrics = read_metrics() ...
\* client.publish(TOPIC_DBIRTH, ..) (V3 169-176), and its sleep (178). The
\* node read has stored a snapshot and nothing empties previous_metrics
\* afterwards, so that the device read never reaches V3 144-145.
V3Next ==
    \/ V3Wait
    \/ V3MainSnapshot
    \/ V3MainCheck
    \/ V3MainDelta
    \/ V3MainStoreDelta
    \/ V3MainStoreFull
    \/ V3SleepSkip
    \/ V3Filter
    \/ V3CheckFirst
    \/ V3Override
    \/ V3ClearFirst
    \/ V3MainStamp
    \/ V3MainLoad
    \/ V3MainStore
    \/ V3MainIter
    \/ V3MainLoop
    \/ V3MainPublish
    \/ V3PrintIter
    \/ V3PrintLoop
    \/ V3SleepSent
    \/ V3ReadSnapshot("v3_nb_snap", "v3_nb_check")
    \/ V3ReadCheck("v3_nb_check", "v3_nb_delta", "v3_nb_full")
    \/ V3ReadDelta("v3_nb_delta", "v3_nb_sdelta")
    \/ V3ReadStoreDelta("v3_nb_sdelta", "v3_nb_update")
    \/ V3ReadStoreFull("v3_nb_full", "v3_nb_update")
    \/ V3Update("v3_nb_update", "v3_nb_stamp", V3NodeExtra)
    \/ V3NetStamp("v3_nb_stamp", "v3_nb_load")
    \/ V3NetLoad("v3_nb_load", "v3_nb_store")
    \/ V3NetStore("v3_nb_store", "v3_nb_publish")
    \/ V3Publish("v3_nb_publish", "v3_db_snap", "NBIRTH")
    \/ V3ReadSnapshot("v3_db_snap", "v3_db_check")
    \/ V3ReadCheck("v3_db_check", "v3_db_delta", "v3_db_full")
    \/ V3ReadDelta("v3_db_delta", "v3_db_sdelta")
    \/ V3ReadStoreDelta("v3_db_sdelta", "v3_db_update")
    \/ V3Update("v3_db_update", "v3_db_stamp", V3DeviceExtra)
    \/ V3NetStamp("v3_db_stamp", "v3_db_load")
    \/ V3NetLoad("v3_db_load", "v3_db_store")
    \/ V3NetStore("v3_db_store", "v3_db_publish")
    \/ V3Publish("v3_db_publish", "settle", "DBIRTH")
    \/ V3Settle

V3Spec == V3Init /\ [][V3Next]_vars

\* ------------------------------------------------------------------ claims
\* The main thread is inside build_payload(metrics) or about to publish the
\* DDATA payload (258-259).
EncodePcs == {"bp_stamp", "bp_load", "bp_store", "publish"}

\* The main thread is inside a tick: read_metrics has started (246) and the
\* tick has not reached its time.sleep(60) (249, 261).
TickPcs ==
    {"rm_check", "rm_first", "rm_delta", "rm_store", "check_first",
     "override", "clear_first"} \cup EncodePcs

SleepPcs == {"sleep_skip", "sleep_sent"}

\* on_connect is running for an accepted connection: from the connect event
\* to the end of time.sleep(5).
BirthWindow == accepted /\ netPc # "idle"

\* C1: on every (re)connection no DDATA is encoded or published by the tick
\* loop until on_connect has published NBIRTH and DBIRTH and its
\* time.sleep(5) has finished: no encode or publish step of the main thread
\* is taken while on_connect is running for an accepted connection.
C1_NoDataBeforeSettled ==
    [][ (mainPc \in EncodePcs /\ mainPc' # mainPc) => ~BirthWindow ]_vars

\* C2: on every successful connect event the NBIRTH payload is stamped with
\* sequence 0 and the DBIRTH payload with sequence 1.
C2_BirthSeqReset ==
    /\ netPc = "nb_publish" => netSeq = 0
    /\ netPc = "db_publish" => netSeq = 1

\* C3: after a reconnect, the first DDATA published after that connection's
\* births carries every key of the snapshot read on its tick: it is neither
\* a partial set nor empty.
C3_FirstDataAfterReconnectFull ==
    ( /\ sessions >= 2
      /\ accepted
      /\ mainPc = "sleep_sent"
      /\ ndata = 1
      /\ last.kind = "DDATA" )
    => ( /\ last.names = DOMAIN rm_metrics
         /\ last.names # {} )

\* C4: on every accepted connection NBIRTH is published before DBIRTH, and
\* on_connect publishes exactly one NBIRTH and exactly one DBIRTH: the DBIRTH
\* count never exceeds the NBIRTH count, neither exceeds one, a refused
\* connection publishes no birth, and once on_connect has published DBIRTH
\* both counts are one.
C4_BirthOrder ==
    /\ dbirths <= nbirths
    /\ nbirths <= 1
    /\ ~accepted => nbirths = 0
    /\ (accepted /\ netPc \in {"settle", "idle"}) => (nbirths = 1 /\ dbirths = 1)
    /\ (accepted /\ netPc \in {"db_stamp", "db_load", "db_store", "db_publish"})
          => (nbirths = 1 /\ dbirths = 0)

\* A reconnect has completed its birth sequence.
C4_Witness ==
    /\ sessions = 2
    /\ accepted
    /\ netPc = "idle"
    /\ nbirths = 1
    /\ dbirths = 1
    /\ last.kind = "DBIRTH"

\* C5: no DDATA with zero metrics is ever encoded or published.
C5_NoEmptyData ==
    /\ mainPc \in EncodePcs => metrics # EmptyDict
    /\ last.kind = "DDATA" => last.names # {}

\* C6: ticks and connect handling are serialized: while a tick is in
\* progress the network thread takes no on_connect step, and while
\* on_connect is running the main thread takes no tick step.
C6_Serialized ==
    [][ /\ mainPc \in TickPcs => netPc' = netPc
        /\ (netPc # "idle" /\ mainPc \in TickPcs \cup {"read"})
              => mainPc' = mainPc ]_vars

\* C7: within one session each payload is stamped with the sequence value
\* that follows, modulo 256, the one stamped on the payload before it.
C7_ConsecutiveSeq ==
    [][ ( /\ \/ mainPc = "bp_stamp" /\ mainPc' = "bp_load"
             \/ netPc \in {"nb_stamp", "db_stamp"} /\ netPc' # netPc
          /\ stamped # None )
        => stamped' = (stamped + 1) % SeqModulus ]_vars

\* C8: after N consecutive build_payload calls from counter value s the
\* counter is (s + N) mod 256; the counter and every stamp are in 0..255;
\* the call made at 255 stamps 255 and leaves the counter at 0.
C8_SeqCounter ==
    /\ seq \in 0..255
    /\ mainSeq \in 0..255
    /\ mainPc = "bp_stamp" => seq = (s0 + calls) % 256
    /\ mainPc = "publish" =>
          /\ seq = (s0 + calls + 1) % 256
          /\ mainSeq = (s0 + calls) % 256
          /\ mainSeq = 255 => seq = 0

\* The call made at counter 255 has returned, after more than 256 calls.
C8_Witness ==
    /\ mainPc = "publish"
    /\ mainSeq = 255
    /\ seq = 0
    /\ calls > 256

\* The keys the claim names: those of B absent from A or with another value.
ChangedKeys(A, B) == { k \in DOMAIN B : k \notin DOMAIN A \/ A[k] # B[k] }

\* read_metrics has returned to the main loop (246-247, 253).
Returned == mainPc \in {"check_first", "sleep_skip"}

\* C9: the delta read_metrics returns for retained snapshot A and new
\* snapshot B holds exactly the keys of B that A lacks or maps to another
\* value, each with B's value; no key of A alone; nothing when A = B; all of
\* B when A is empty.
C9_DeltaExact ==
    Returned =>
        /\ DOMAIN metrics = ChangedKeys(prev0, rm_metrics)
        /\ \A k \in DOMAIN metrics : metrics[k] = rm_metrics[k]
        /\ DOMAIN metrics \cap (DOMAIN prev0 \ DOMAIN rm_metrics) = {}
        /\ prev0 = rm_metrics => metrics = EmptyDict
        /\ prev0 = EmptyDict => metrics = rm_metrics

\* A delta of one changed key against a retained snapshot that also holds a
\* key the new snapshot lacks.
C9_Witness ==
    /\ Returned
    /\ DOMAIN metrics = {"cpu_percent"}
    /\ "battery_percent" \in DOMAIN prev0 \ DOMAIN rm_metrics

\* C10: when a tick ends (sent, suppressed or publish failed) the retained
\* snapshot equals the snapshot read on that tick.
C10_RetainedIsSnapshot ==
    [][ (mainPc \notin SleepPcs /\ mainPc' \in SleepPcs)
        => previous_metrics' = rm_metrics' ]_vars

\* C11: payload.uuid is present on every NBIRTH and every DBIRTH payload and
\* on no DDATA payload: whatever the interleaving, a published birth carries
\* a uuid and a published DDATA carries none.
C11_UuidOnBirthsOnly ==
    /\ last.kind \in {"NBIRTH", "DBIRTH"} => last.uuid
    /\ last.kind = "DDATA" => ~last.uuid

\* A DDATA without uuid has been published after the two births of a
\* reconnect, each of which went out with one.
C11_Witness ==
    /\ sessions = 2
    /\ nbirths = 1
    /\ dbirths = 1
    /\ ndata = 1
    /\ last.kind = "DDATA"
    /\ ~last.uuid

\* C12: for every metric build_payload encodes, of any of the thirteen
\* declared types, exactly one wire value field is populated, and two
\* metrics of the same type populate the same field.
C12_OneValueField ==
    \A i \in 1..Len(bp_out) :
        /\ Cardinality(DOMAIN bp_out[i].fields) = 1
        /\ \A j \in 1..Len(bp_out) :
              bp_out[i].datatype = bp_out[j].datatype
                  => DOMAIN bp_out[i].fields = DOMAIN bp_out[j].fields

\* C19: every metric whose name the alias table lacks is encoded with alias
\* 255 and with its name, its type and a value, in the position it has in
\* the dictionary (no metric is dropped); every name of the table is
\* encoded with its table alias, and every table alias is below 255.
C19_UnknownNameEncoded ==
    /\ \A n \in DOMAIN alias_map : alias_map[n] < UnmappedAlias
    /\ \A i \in 1..Len(bp_out) :
          /\ bp_out[i].name = bp_in[i].name
          /\ bp_in[i].name \notin DOMAIN alias_map
                => /\ bp_out[i].alias = UnmappedAlias
                   /\ bp_out[i].datatype = bp_in[i].datatype
                   /\ DOMAIN bp_out[i].fields # {}
          /\ bp_in[i].name \in DOMAIN alias_map
                => bp_out[i].alias = alias_map[bp_in[i].name]

\* on_dcmd has returned from the message dcmd_msg.
DcmdDone == handled > 0 /\ dcmdPc = "idle"

\* The metrics of dcmd_msg that are named boolean_command.
BoolCommands ==
    { i \in 1..Len(dcmd_msg.metrics) :
        dcmd_msg.metrics[i].name = "boolean_command" }

\* C13: after on_dcmd has handled a payload with exactly one metric named
\* boolean_command, of value true, that arrived while the Command Flag was
\* false or COMMAND_FILE did not exist, the Command Flag is true.
C13_CommandSetsFlag ==
    ( /\ DcmdDone
      /\ Cardinality(BoolCommands) = 1
      /\ \A i \in BoolCommands : dcmd_msg.metrics[i].value = TRUE
      /\ flag0 \in {"absent", "FALSE"} )
    => command_file = "TRUE"

\* The command has been handled both with COMMAND_FILE absent and, for a
\* later message, with COMMAND_FILE holding FALSE.
C13_Witness ==
    /\ DcmdDone
    /\ Cardinality(BoolCommands) = 1
    /\ \A i \in BoolCommands : dcmd_msg.metrics[i].value = TRUE
    /\ flag0 = "FALSE"
    /\ command_file = "TRUE"
    /\ handled = 2

\* C14: on_dcmd, handling a decoded payload none of whose metrics is named
\* boolean_command, returns normally and changes neither COMMAND_FILE, nor
\* seq, nor previous_metrics, nor first.
C14_OtherNamesIgnored ==
    [][ ( /\ dcmdPc = "on_dcmd"
          /\ dcmdPc' # dcmdPc
          /\ dcmd_msg.ok
          /\ BoolCommands = {} )
        => ( /\ dcmdPc' = "idle"
             /\ loop_alive'
             /\ command_file' = command_file
             /\ seq' = seq
             /\ previous_metrics' = previous_metrics
             /\ first' = first ) ]_vars

\* on_dcmd has returned from a payload of MaxMetrics metrics, none of them
\* the command, that arrived with the Command Flag true, and left it true.
C14_Witness ==
    /\ DcmdDone
    /\ dcmd_msg.ok
    /\ Len(dcmd_msg.metrics) >= 2
    /\ BoolCommands = {}
    /\ flag0 = "TRUE"
    /\ command_file = "TRUE"

\* C15: handling a payload that fails to decode drops the message, leaves
\* COMMAND_FILE and the session state unchanged and leaves the network
\* thread running, so that later commands are still handled.
C15_MalformedDropped ==
    [][ ( /\ dcmdPc = "on_dcmd"
          /\ dcmdPc' # dcmdPc
          /\ ~dcmd_msg.ok )
        => ( /\ loop_alive'
             /\ dcmdPc' = "idle"
             /\ command_file' = command_file
             /\ seq' = seq
             /\ previous_metrics' = previous_metrics
             /\ first' = first
             /\ connected' = connected ) ]_vars

\* C16: a birth publish that fails (the transport is down when on_connect
\* calls client.publish for NBIRTH or DBIRTH) ends the session: on_connect
\* performs no further birth step and connected is false afterwards.
C16_BirthFailureFatal ==
    [][ ( /\ netPc \in {"nb_publish", "db_publish"}
          /\ netPc' # netPc
          /\ link = "down" )
        => ( /\ netPc' = "idle"
             /\ ~connected' ) ]_vars

\* C17: on a successful connect the NBIRTH payload holds every key of the
\* snapshot read for it plus node and online, and the DBIRTH payload every
\* key of the snapshot read for it plus device and online; stated here for
\* the V3 on_connect, which builds both from read_metrics calls.
C17_BirthsAreFullSnapshots ==
    [][ /\ (netPc = "v3_nb_publish" /\ netPc' = "v3_db_snap")
           => /\ last'.kind = "NBIRTH"
              /\ DOMAIN v3_snapshot \cup {"node", "online"}
                    \subseteq last'.names
        /\ (netPc = "v3_db_publish" /\ netPc' = "settle")
           => /\ last'.kind = "DBIRTH"
              /\ DOMAIN v3_snapshot \cup {"device", "online"}
                    \subseteq last'.names ]_vars

\* The transport dropped after the last connect event, which was accepted
\* and whose on_connect has returned; no connect event has followed yet.
Disconnected == accepted /\ link = "down" /\ netPc = "idle"

\* C18: after a transport disconnect and until the next connect event,
\* connected is false, the main thread takes no encode or publish step and
\* the sequence counter does not advance.
C18_DisconnectDiscards ==
    [][ Disconnected
        => ( /\ ~connected
             /\ seq' = seq
             /\ mainPc \in EncodePcs => mainPc' = mainPc ) ]_vars

\* C20: when the group identifier is empty or unset, or the node
\* identifier is empty, the program stops at startup: client.connect is
\* never called, no connect event is handled, TOPIC_DCMD is never
\* subscribed and nothing is published.
C20_EmptyIdIsFatal ==
    (group_id \in {"", "unset"} \/ node_id = "")
    => ( /\ ~started
         /\ conn = 0
         /\ ~subscribed
         /\ last = NoMsg )

\* C22: a tick whose delta is empty publishes nothing and consumes no
\* sequence slot: from the moment read_metrics has computed an empty delta,
\* the main thread's steps go to the tick's time.sleep(60) and back to the
\* next read, and they change neither seq, nor first, nor connected, nor
\* what was published; only the step that stores the snapshot changes
\* previous_metrics.
C22_EmptyDeltaTickFrame ==
    [][ ( /\ \/ mainPc = "rm_store" /\ delta = EmptyDict
             \/ mainPc = "sleep_skip"
          /\ mainPc' # mainPc )
        => ( /\ mainPc' = IF mainPc = "rm_store" THEN "sleep_skip" ELSE "read"
             /\ seq' = seq
             /\ first' = first
             /\ connected' = connected
             /\ last' = last
             /\ ndata' = ndata
             /\ mainPc = "rm_store" => previous_metrics' = rm_metrics
             /\ mainPc = "sleep_skip" => previous_metrics' = previous_metrics )
      ]_vars

\* The second tick of a session found nothing changed and is in its
\* time.sleep(60): the first tick's DDATA took sequence 2 and the counter
\* is still 3.
C22_Witness ==
    /\ mainPc = "sleep_skip"
    /\ ticks = 2
    /\ sessions = 1
    /\ last.kind = "DDATA"
    /\ ndata = 1
    /\ seq = 3
    /\ previous_metrics = rm_metrics

\* Every name read_metrics can return is in on_connect's device_metrics,
\* with the same datatype (141-154 against 187-201).
NamesInBirthList ==
    /\ DeviceMetricNames \subseteq DOMAIN DeviceTypes
    /\ MandatoryNames \cup DiffMandatoryNames \cup OptionalNames
          \subseteq DOMAIN MetricTypes
    /\ \A k \in DOMAIN MetricTypes :
          /\ k \in DOMAIN DeviceTypes
          /\ MetricTypes[k] = DeviceTypes[k]

\* C23: every metric name carried by a DDATA message was announced, with
\* the same datatype, in the DBIRTH of the same connection: when the tick
\* loop publishes a DDATA on a live connection, that connection's DBIRTH
\* has been published, and every name of the DDATA is in the DBIRTH's list
\* with the datatype it has there.
C23_DataNamesAnnounced ==
    [][ (mainPc = "publish" /\ mainPc' = "sleep_sent" /\ link = "up")
        => ( /\ dbirths >= 1
             /\ DOMAIN metrics \subseteq DeviceMetricNames
             /\ NamesInBirthList )
      ]_vars

\* The Command Flag read from a content of COMMAND_FILE: true exactly when
\* the file holds TRUE.
Flag(file) == file = "TRUE"

\* C24: handling one decoded command payload negates the Command Flag once
\* per metric named boolean_command, whatever those metrics' values and
\* datatypes: the flag after the handler equals the flag before it when the
\* number of such metrics is even and its negation when it is odd, and no
\* other command is taken up before the handler has returned.
C24_ToggleOncePerCommand ==
    [][ (dcmdPc = "on_dcmd" /\ dcmdPc' # dcmdPc /\ dcmd_msg.ok)
        => ( /\ Flag(command_file') =
                  IF Cardinality(BoolCommands) % 2 = 1
                  THEN ~Flag(command_file)
                  ELSE Flag(command_file)
             /\ command_file = flag0
             /\ dcmd_msg' = dcmd_msg
             /\ handled' = handled
             /\ dcmdPc' = "idle" )
      ]_vars

\* A payload with two boolean_command metrics of different values and
\* datatypes has been handled while the flag was true, and the flag is true.
C24_Witness ==
    /\ DcmdDone
    /\ dcmd_msg.ok
    /\ Len(dcmd_msg.metrics) = 2
    /\ Cardinality(BoolCommands) = 2
    /\ dcmd_msg.metrics[1].value # dcmd_msg.metrics[2].value
    /\ dcmd_msg.metrics[1].datatype # dcmd_msg.metrics[2].datatype
    /\ flag0 = "TRUE"
    /\ command_file = "TRUE"

\* A step of on_connect running for a refused connection (rc /= 0).
RefusedStep == ~accepted /\ netPc # "idle" /\ netPc' # netPc

\* C25 as stated: a connect callback that reports failure publishes no
\* message, makes no subscription and leaves the sequence counter, the
\* connected flag, the first-tick flag and the retained snapshot unchanged.
C25_RefusedConnectFrame ==
    [][ RefusedStep
        => ( /\ last' = last
             /\ nbirths' = nbirths
             /\ dbirths' = dbirths
             /\ stamped' = stamped
             /\ subscribed' = subscribed
             /\ seq' = seq
             /\ connected' = connected
             /\ first' = first
             /\ previous_metrics' = previous_metrics )
      ]_vars

\* C25, amended: a connect callback that reports failure publishes no
\* message, makes no subscription and leaves the sequence counter and the
\* connected flag unchanged; it sets the first-tick flag to true and the
\* retained snapshot to the empty mapping, and then returns.
C25_RefusedConnectResets ==
    [][ RefusedStep
        => ( /\ last' = last
             /\ nbirths' = nbirths
             /\ dbirths' = dbirths
             /\ stamped' = stamped
             /\ subscribed' = subscribed
             /\ seq' = seq
             /\ connected' = connected
             /\ netPc = "oc_first"
                  => ( /\ first' = TRUE
                       /\ previous_metrics' = previous_metrics
                       /\ netPc' = "oc_prev" )
             /\ netPc = "oc_prev"
                  => ( /\ previous_metrics' = EmptyDict
                       /\ first' = first
                       /\ netPc' = "idle" )
             /\ netPc \in {"oc_first", "oc_prev"} )
      ]_vars

\* A refused reconnect has been handled after a session whose first tick
\* published its full set: the callback has returned, the first-tick flag
\* is true again and the retained snapshot is empty, while the sequence
\* counter, the connected flag and the last message are those of the
\* session before.
C25_Witness ==
    /\ ~accepted
    /\ netPc = "idle"
    /\ conn = 2
    /\ sessions = 1
    /\ mainPc = "sleep_sent"
    /\ first
    /\ previous_metrics = EmptyDict
    /\ connected
    /\ subscribed
    /\ seq = 3
    /\ last.kind = "DDATA"

\* --------------------------------------------------- ticks seen by a subscriber
\* A subscriber applying one DDATA payload to the values it holds: each
\* metric of the payload overwrites the value held under its name.
Overwrite(held, payload) ==
    [k \in DOMAIN held \cup DOMAIN payload |->
        IF k \in DOMAIN payload THEN payload[k] ELSE held[k]]

\* RmSnapshot, a tick starting (246); the tick overlaps a connect event
\* when on_connect is running.
SubSnapshot ==
    /\ RmSnapshotBody
    /\ subscriber' = subscriber
    /\ serial' = (serial /\ netPc = "idle")

\* MainPublish (259), and the subscriber applying the payload when the
\* connection carries it; with the connection down the publish fails.
SubPublish ==
    /\ MainPublishBody
    /\ subscriber' =
          IF link = "up" THEN Overwrite(subscriber, metrics) ELSE subscriber
    /\ serial' = (serial /\ link = "up")

\* ConnectEvent; an accepted connection starts the subscriber's state
\* anew. The event overlaps a tick when the main thread is inside one.
SubConnectEvent ==
    /\ ConnectEventBody
    /\ subscriber' = IF accepted' THEN EmptyDict ELSE subscriber
    /\ serial' = IF accepted' THEN mainPc \notin TickPcs
                 ELSE serial /\ mainPc \notin TickPcs

\* SerialSpec: the program of Spec, every interleaving of its two threads,
\* with the subscriber's state and the history of the two conditions kept
\* along.
SerialInit == Init

SerialNext ==
    \/ WaitConnected
    \/ SubSnapshot
    \/ RmCheckPrevious
    \/ RmFirst
    \/ RmDelta
    \/ RmStore
    \/ SleepSkip
    \/ CheckFirst
    \/ Override
    \/ ClearFirst
    \/ MainStamp
    \/ MainLoad
    \/ MainStore
    \/ SubPublish
    \/ SleepSent
    \/ SubConnectEvent
    \/ Disconnect
    \/ on_connect

SerialSpec == SerialInit /\ [][SerialNext]_vars

\* C21: provided every DDATA publish of the connection went out and no
\* connect event overlapped a tick, after every tick of the connection the
\* values a subscriber holds from the connection's DDATA payloads, applied
\* in order, agree with the snapshot read on that tick for every key of
\* that snapshot, and a payload just published carries values of that
\* snapshot only; so no value change between two consecutive ticks goes
\* unreported.
C21_SubscriberConverges ==
    (serial /\ ndata >= 1)
    => /\ mainPc \in SleepPcs
            => \A k \in DOMAIN rm_metrics :
                  /\ k \in DOMAIN subscriber
                  /\ subscriber[k] = rm_metrics[k]
       /\ mainPc = "sleep_sent"
            => \A k \in DOMAIN metrics :
                  /\ k \in DOMAIN rm_metrics
                  /\ metrics[k] = rm_metrics[k]

\* The second tick of a connection has published a delta that leaves out
\* an unchanged metric, and the subscriber holds the whole snapshot.
C21_Witness ==
    /\ serial
    /\ mainPc = "sleep_sent"
    /\ ndata = 2
    /\ DOMAIN metrics = {"cpu_percent"}
    /\ DOMAIN rm_metrics = {"cpu_percent", "battery_percent"}
    /\ subscriber = rm_metrics

====
